---------------------------- MODULE Spec2Model ----------------------------
(***************************************************************************)
(* Section extractors of patina_ffs_extractors: Crc32SectionExtractor,     *)
(* LzmaSectionExtractor and the CompositeSectionExtractor that chains the  *)
(* extractors enabled by the cargo features brotli, crc32 and lzma.        *)
(*                                                                         *)
(* Numbers wider than 31 bits are kept as tuples of 16-bit limbs, least    *)
(* significant limb first: a u32 is <<lo, hi>>, a u64 is <<l0,l1,l2,l3>>.  *)
(***************************************************************************)
EXTENDS Integers, Sequences, FiniteSets, TLC

VARIABLES enabled,    \* cargo features compiled in (fixed for a build)
          section,    \* the Section handed to extract
          pc,         \* position of the caller / of the composite's extract
          callee,     \* extractor whose extract the caller invoked
          invoked,    \* extractors the composite has invoked in this call
          capacity,   \* initial capacity the LZMA extractor asked for
          result,     \* what extract returned
          memo,       \* first result a caller of the extractors got back
          thread,     \* the calls of the threads sharing one extractor
          conn,       \* a SerialConnection and the transport under it
          logging,    \* the global maximum log level and the suspenders
          mem_type,   \* a call of EfiMemoryType::from_efi
          trace       \* a call of create_stack_frames

vars == <<enabled, section, pc, callee, invoked, capacity, result,
          memo, thread, conn, logging, mem_type, trace>>

\* the variables of one call of an extractor
extractor == <<enabled, section, pc, callee, invoked, capacity, result>>

\* the variables the extractors never touch
elsewhere == <<memo, thread, conn, logging, mem_type, trace>>

\* value of a variable whose program a specification does not run
AtRest == "at rest"

-----------------------------------------------------------------------------
(* Bounds of the model *)

MaxContentLen == 2      \* longest free-form section content
MaxPadLen == 1          \* bytes a header extension may carry beyond 4
MaxPlainLen == 2        \* longest plaintext the external decoders produce

ContentBytes == {97, 255}

-----------------------------------------------------------------------------
(* Results of extract: Result<Vec<u8>, FirmwareFileSystemError>, or the    *)
(* call not returning at all (a panic, or the allocation error handler).   *)

Ok(b) == [tag |-> "Ok", bytes |-> b]
Unsupported == [tag |-> "Unsupported", bytes |-> <<>>]
DataCorrupt == [tag |-> "DataCorrupt", bytes |-> <<>>]
Panic == [tag |-> "Panic", bytes |-> <<>>]
AllocFail == [tag |-> "AllocFail", bytes |-> <<>>]
NoResult == [tag |-> "None", bytes |-> <<>>]

Crashed(r) == r.tag \in {"Panic", "AllocFail"}

-----------------------------------------------------------------------------
(* GUIDs, as their 16 bytes in memory.  LZMA_SECTION_GUID is spelled out   *)
(* in lzma.rs; CRC32_SECTION and BROTLI_SECTION are constants of           *)
(* patina::pi::fw_fs::guid, given here with the values the PI             *)
(* specification assigns them.  Only their being distinct matters.         *)

LZMA_SECTION_GUID ==
    <<152, 88, 78, 238, 20, 57, 89, 66, 157, 110, 220, 123, 215, 148, 3, 207>>

CRC32_SECTION ==
    <<176, 205, 27, 252, 49, 125, 170, 73, 147, 106, 164, 96, 13, 157, 208, 131>>

BROTLI_SECTION ==
    <<80, 32, 83, 61, 218, 92, 208, 79, 135, 158, 15, 127, 99, 13, 90, 251>>

\* the unrelated GUID of the unsupported_guid tests
WrongGuid ==
    <<120, 86, 52, 18, 52, 18, 120, 86, 18, 52, 86, 120, 154, 188, 222, 240>>

\* LZMA_SECTION_GUID with its last byte changed
NearLzmaGuid == [LZMA_SECTION_GUID EXCEPT ![16] = 206]

\* CRC32_SECTION with its first byte changed
NearCrc32Guid == [CRC32_SECTION EXCEPT ![1] = 177]

Guids == {LZMA_SECTION_GUID, CRC32_SECTION, BROTLI_SECTION,
          WrongGuid, NearLzmaGuid, NearCrc32Guid}

-----------------------------------------------------------------------------
(* Fixed-width arithmetic on limbs *)

RECURSIVE Xor(_, _, _)
\* bitwise exclusive or of two n-bit numbers
Xor(a, b, n) ==
    IF n = 0 THEN 0
    ELSE ((a + b) % 2) + 2 * Xor(a \div 2, b \div 2, n - 1)

\* the bytes read most significant first
U32FromBeBytes(b) == <<b[4] + 256 * b[3], b[2] + 256 * b[1]>>

\* u32::from_le_bytes
U32FromLeBytes(b) == <<b[1] + 256 * b[2], b[3] + 256 * b[4]>>

\* u32::to_le_bytes
U32ToLeBytes(v) == <<v[1] % 256, v[1] \div 256, v[2] % 256, v[2] \div 256>>

\* u64::from_le_bytes
U64FromLeBytes(b) ==
    <<b[1] + 256 * b[2], b[3] + 256 * b[4], b[5] + 256 * b[6], b[7] + 256 * b[8]>>

\* a <= b on u64
U64Leq(a, b) ==
    \/ a = b
    \/ \E i \in 1..4 : a[i] < b[i] /\ \A j \in (i + 1)..4 : a[j] = b[j]

LZMA_UNKNOWN_UNPACKED_SIZE_MAGIC_VALUE == <<65535, 65535, 65535, 65535>>

\* isize::MAX on the 64-bit targets
IsizeMax == <<65535, 65535, 65535, 32767>>

U64Zero == <<0, 0, 0, 0>>


-----------------------------------------------------------------------------
(* crc32fast::hash: CRC-32 (IEEE 802.3, reflected, polynomial EDB88320),   *)
(* initial value and final complement FFFFFFFF.                            *)

\* one bit of the shift register: shift right, fold the polynomial in
CrcShift(c) ==
    LET lo == (c[1] \div 2) + (c[2] % 2) * 32768
        hi == c[2] \div 2
    IN  IF c[1] % 2 = 1
        THEN <<Xor(lo, 33568, 16), Xor(hi, 60856, 16)>>
        ELSE <<lo, hi>>

RECURSIVE CrcShifts(_, _)
\* n bits shifted out of register c
CrcShifts(c, n) == IF n = 0 THEN c ELSE CrcShift(CrcShifts(c, n - 1))

\* one byte folded into register c
CrcByte(c, byte) == CrcShifts(<<Xor(c[1], byte, 16), c[2]>>, 8)

RECURSIVE CrcUpdate(_, _, _)
\* the first n bytes folded into register c
CrcUpdate(c, bytes, n) ==
    IF n = 0 THEN c ELSE CrcByte(CrcUpdate(c, bytes, n - 1), bytes[n])

Crc32Hash(bytes) ==
    LET c == CrcUpdate(<<65535, 65535>>, bytes, Len(bytes))
    IN  <<Xor(c[1], 65535, 16), Xor(c[2], 65535, 16)>>

-----------------------------------------------------------------------------
(* Section accessors *)

IsGuidDefined(s) == s.kind = "GuidDefined"

\* Section::try_content_as_slice: the content, or an error when the declared
\* length disagrees with the backing storage
TryContentAsSlice(s) ==
    IF s.storage_ok THEN Ok(s.content) ELSE DataCorrupt

-----------------------------------------------------------------------------
(* Crc32SectionExtractor::extract *)

\* (**crc_header).try_into().unwrap() into [u8; 4]: a slice converts to an
\* array only when the lengths are equal
\* an unwrap in place of the ? operator
UnwrapErr(e) == Panic

\* the ? operator on Err(e): extract returns the error as it is
PropagateErr(e) == e

CrcHeaderFits(ext) == Len(ext) = 4

\* the if-let of extract: a GuidDefined header carrying CRC32_SECTION
Crc32Recognizes(s) == IsGuidDefined(s) /\ s.guid = CRC32_SECTION

\* a length check that lets a 3-byte header through
HeaderTooShortBy1(ext) == Len(ext) < 3

\* crc_header.len() < 4
HeaderTooShort(ext) == Len(ext) < 4

\* a comparison of the low 16 bits only
ChecksumMatchesLow16(crc32, content) == crc32[1] = Crc32Hash(content)[1]

\* the negation of crc32 != crc32fast::hash(content)
ChecksumMatches(crc32, content) == crc32 = Crc32Hash(content)

Crc32Extract(s) ==
    IF Crc32Recognizes(s)
    THEN IF HeaderTooShort(s.ext) THEN DataCorrupt
         ELSE IF ~CrcHeaderFits(s.ext) THEN Panic
         ELSE LET crc32 == U32FromLeBytes(s.ext)
                  content == TryContentAsSlice(s)
              IN  IF content.tag # "Ok" THEN PropagateErr(content)
                  ELSE IF ~ChecksumMatches(crc32, content.bytes) THEN DataCorrupt
                  ELSE Ok(content.bytes)
    ELSE Unsupported

-----------------------------------------------------------------------------
(* LzmaSectionExtractor::extract *)

NoCapacity == [kind |-> "none", size |-> U64Zero]

\* unpacked_size as usize, usize being 64 bits wide
AsUsize(v) == [i \in 1..4 |-> v[i]]

\* the declared size used for the allocation whatever its value
InitialCapacityDeclared(unpacked_size) ==
    [kind |-> "with_capacity", size |-> unpacked_size]

\* the buffer extract starts with, from the declared unpacked size
InitialCapacity(unpacked_size) ==
    IF unpacked_size = LZMA_UNKNOWN_UNPACKED_SIZE_MAGIC_VALUE
    THEN [kind |-> "new", size |-> U64Zero]
    ELSE [kind |-> "with_capacity", size |-> AsUsize(unpacked_size)]

\* Vec::new never allocates; Vec::with_capacity(n) panics with "capacity
\* overflow" above isize::MAX and calls the allocation error handler when
\* the allocator has fewer than n bytes (mem) to give
VecAlloc(cap, mem) ==
    IF cap.kind = "new" \/ cap.size = U64Zero THEN "ok"
    ELSE IF ~U64Leq(cap.size, IsizeMax) THEN "capacity_overflow"
    ELSE IF ~U64Leq(cap.size, mem) THEN "alloc_error"
    ELSE "ok"

\* patina_lzma_rs::lzma_decompress, an external decoder: its verdict on the
\* stream is part of the input (decoded), mapped to DataCorrupt on error
LzmaDecompress(s) ==
    IF s.decoded.accept THEN Ok(s.decoded.plain) ELSE DataCorrupt

\* an if-let that takes every GuidDefined section, whatever its GUID
LzmaRecognizesAnyGuid(s) == IsGuidDefined(s)

\* a GUID comparison that leaves the last byte out
LzmaRecognizesPrefix(s) ==
    IsGuidDefined(s) /\ SubSeq(s.guid, 1, 15) = SubSeq(LZMA_SECTION_GUID, 1, 15)

\* the if-let of extract: a GuidDefined header carrying LZMA_SECTION_GUID
LzmaRecognizes(s) == IsGuidDefined(s) /\ s.guid = LZMA_SECTION_GUID

LzmaRun(s, mem) ==
    IF LzmaRecognizes(s)
    THEN LET data == TryContentAsSlice(s)
         IN  IF data.tag # "Ok"
             THEN [res |-> PropagateErr(data), cap |-> NoCapacity]
             ELSE IF Len(data.bytes) < 13
                  THEN [res |-> DataCorrupt, cap |-> NoCapacity]
             ELSE LET unpacked_size == U64FromLeBytes(SubSeq(data.bytes, 6, 13))
                      cap == InitialCapacity(unpacked_size)
                      alloc == VecAlloc(cap, mem)
                  IN  IF alloc = "capacity_overflow" THEN [res |-> Panic, cap |-> cap]
                      ELSE IF alloc = "alloc_error" THEN [res |-> AllocFail, cap |-> cap]
                      ELSE [res |-> LzmaDecompress(s), cap |-> cap]
    ELSE [res |-> Unsupported, cap |-> NoCapacity]

LzmaExtract(s, mem) == LzmaRun(s, mem).res

-----------------------------------------------------------------------------
(* BrotliSectionExtractor::extract: content is out_size: u64, scratch_size: *)
(* u64, then the compressed stream; the decoded length must be out_size.   *)

BrotliExtract(s) ==
    IF IsGuidDefined(s) /\ s.guid = BROTLI_SECTION
    THEN LET data == TryContentAsSlice(s)
         IN  IF data.tag # "Ok" THEN data
             ELSE IF Len(data.bytes) < 16 THEN DataCorrupt
             ELSE LET out_size == U64FromLeBytes(SubSeq(data.bytes, 1, 8))
                  IN  IF ~s.decoded.accept THEN DataCorrupt
                      ELSE IF out_size # <<Len(s.decoded.plain), 0, 0, 0>>
                           THEN DataCorrupt
                      ELSE Ok(s.decoded.plain)
    ELSE Unsupported

-----------------------------------------------------------------------------
(* CompositeSectionExtractor::extract, one cfg(feature) block per step *)

Features == {"brotli", "crc32", "lzma"}

\* match arms that also go on after Err(DataCorrupt)
DeclinedOrCorrupt(r) == r.tag \in {"Unsupported", "DataCorrupt"}

\* the match arms of each block: Err(Unsupported) => (), anything else returns
Declined(r) == r.tag = "Unsupported"

\* the block of one extractor: r is what its extract returned
Block(name, r, next) ==
    /\ invoked' = Append(invoked, name)
    /\ IF Declined(r)
       THEN pc' = next /\ result' = result
       ELSE pc' = "done" /\ result' = r

\* a block compiled out by its feature flag
Skip(next) == pc' = next /\ UNCHANGED <<invoked, result, capacity>>

\* memory the allocator can still give when with_capacity asks, in bytes
AllocatorMemory == {<<0, 1, 0, 0>>, <<0, 0, 0, 1>>}

CompositeCall ==
    /\ pc = "idle"
    /\ pc' = "brotli"
    /\ callee' = "Composite"
    /\ UNCHANGED <<enabled, section, invoked, capacity, result>>
    /\ UNCHANGED elsewhere

CompositeBrotli ==
    /\ pc = "brotli"
    /\ IF "brotli" \in enabled
       THEN Block("brotli", BrotliExtract(section), "crc32") /\ UNCHANGED capacity
       ELSE Skip("crc32")
    /\ UNCHANGED <<enabled, section, callee>>
    /\ UNCHANGED elsewhere

CompositeCrc32 ==
    /\ pc = "crc32"
    /\ IF "crc32" \in enabled
       THEN Block("crc32", Crc32Extract(section), "lzma") /\ UNCHANGED capacity
       ELSE Skip("lzma")
    /\ UNCHANGED <<enabled, section, callee>>
    /\ UNCHANGED elsewhere

CompositeLzma ==
    /\ pc = "lzma"
    /\ IF "lzma" \in enabled
       THEN \E mem \in AllocatorMemory :
                /\ Block("lzma", LzmaExtract(section, mem), "tail")
                /\ capacity' = LzmaRun(section, mem).cap
       ELSE Skip("tail")
    /\ UNCHANGED <<enabled, section, callee>>
    /\ UNCHANGED elsewhere

\* a final Err(DataCorrupt)
CompositeTailCorrupt ==
    /\ pc = "tail"
    /\ pc' = "done"
    /\ result' = DataCorrupt
    /\ UNCHANGED <<enabled, section, callee, invoked, capacity>>
    /\ UNCHANGED elsewhere

\* the final Err(Unsupported)
CompositeUnsupported ==
    /\ pc = "tail"
    /\ pc' = "done"
    /\ result' = Unsupported
    /\ UNCHANGED <<enabled, section, callee, invoked, capacity>>
    /\ UNCHANGED elsewhere

-----------------------------------------------------------------------------
(* Direct calls of one extractor, as the unit tests make them *)

CallCrc32 ==
    /\ pc = "idle"
    /\ "crc32" \in enabled
    /\ callee' = "Crc32"
    /\ result' = Crc32Extract(section)
    /\ pc' = "done"
    /\ UNCHANGED <<enabled, section, invoked, capacity>>
    /\ UNCHANGED elsewhere

CallLzma ==
    /\ pc = "idle"
    /\ "lzma" \in enabled
    /\ callee' = "Lzma"
    /\ \E mem \in AllocatorMemory :
           /\ result' = LzmaExtract(section, mem)
           /\ capacity' = LzmaRun(section, mem).cap
    /\ pc' = "done"
    /\ UNCHANGED <<enabled, section, invoked>>
    /\ UNCHANGED elsewhere

CallBrotli ==
    /\ pc = "idle"
    /\ "brotli" \in enabled
    /\ callee' = "Brotli"
    /\ result' = BrotliExtract(section)
    /\ pc' = "done"
    /\ UNCHANGED <<enabled, section, invoked, capacity>>
    /\ UNCHANGED elsewhere

\* the caller takes the result; the extractors keep nothing
Return ==
    /\ pc = "done"
    /\ pc' = "idle"
    /\ callee' = "none"
    /\ invoked' = <<>>
    /\ capacity' = NoCapacity
    /\ result' = NoResult
    /\ UNCHANGED <<enabled, section>>
    /\ UNCHANGED elsewhere

-----------------------------------------------------------------------------
(* Inputs *)

SeqsUpTo(S, n) == UNION {[1..k -> S] : k \in 0..n}

Rejected == [accept |-> FALSE, plain |-> <<>>]

\* verdicts of the external decoders on a stream
Verdicts == {Rejected} \cup
            {[accept |-> TRUE, plain |-> p] : p \in SeqsUpTo({72}, MaxPlainLen)}

\* 0xDEADBEEF.to_le_bytes(), the wrong checksum of the tests
DeadBeef == <<239, 190, 173, 222>>

\* header extensions tried with content c: its checksum, shortened,
\* lengthened, reversed, altered in one byte, and unrelated values
ExtsFor(c) ==
    LET good == U32ToLeBytes(Crc32Hash(c))
        four == {good, DeadBeef, <<0, 0, 0, 0>>,
                 <<good[4], good[3], good[2], good[1]>>}
                \cup {[good EXCEPT ![i] = (good[i] + 1) % 256] : i \in 1..4}
        pads == SeqsUpTo({0}, MaxPadLen) \ {<<>>}
    IN  four \cup {SubSeq(good, 1, n) : n \in 0..3}
             \cup {e \o p : e \in {good, DeadBeef}, p \in pads}

Sec(k, g, e, c, ok, d) ==
    [kind |-> k, guid |-> g, ext |-> e, content |-> c, storage_ok |-> ok,
     decoded |-> d]

\* headers other than GuidDefined carry neither GUID nor extension
Headed(exts, c, d) ==
    {Sec("GuidDefined", g, e, c, ok, d) : g \in Guids, e \in exts, ok \in BOOLEAN}
    \cup {Sec("Standard", <<>>, <<>>, c, ok, d) : ok \in BOOLEAN}

\* free-form contents, with every extension above
ShortSections ==
    UNION {Headed(ExtsFor(c), c, Rejected) : c \in SeqsUpTo(ContentBytes, MaxContentLen)}

\* the 5 property bytes of the LZMA test streams
LzmaProps == <<93, 0, 0, 128, 0>>

\* declared unpacked sizes, as the 8 bytes at content offsets 5..13:
\* 0, 1, 2, 2^32 - 1, 2^32, isize::MAX, 2^63, 2^64 - 2 and the sentinel
SizeFields ==
    {<<0, 0, 0, 0, 0, 0, 0, 0>>, <<1, 0, 0, 0, 0, 0, 0, 0>>,
     <<2, 0, 0, 0, 0, 0, 0, 0>>,
     <<255, 255, 255, 255, 0, 0, 0, 0>>, <<0, 0, 0, 0, 1, 0, 0, 0>>,
     <<255, 255, 255, 255, 255, 255, 255, 127>>,
     <<0, 0, 0, 0, 0, 0, 0, 128>>,
     <<254, 255, 255, 255, 255, 255, 255, 255>>,
     <<255, 255, 255, 255, 255, 255, 255, 255>>}

\* properties, size field, and one byte standing for the compressed stream,
\* whose decoding is given by the section's verdict
LzmaContents == {LzmaProps \o f \o <<0>> : f \in SizeFields}

\* out_size 0..MaxPlainLen, scratch_size 0, one stream byte
BrotliContents ==
    {<<n, 0, 0, 0, 0, 0, 0, 0>> \o <<0, 0, 0, 0, 0, 0, 0, 0>> \o <<33>> :
        n \in 0..MaxPlainLen}

\* streams cut short of their fixed fields, and the 4 bytes of
\* test_lzma_extractor_invalid_data
TruncatedContents ==
    {SubSeq(c, 1, 12) : c \in LzmaContents} \cup {<<0, 1, 2, 3>>}
    \cup {SubSeq(c, 1, 15) : c \in BrotliContents}

LongSections ==
    UNION {Headed({<<>>, <<0>>}, c, d) : c \in LzmaContents \cup BrotliContents,
                                         d \in Verdicts}
    \cup UNION {Headed({<<>>, <<0>>}, c, Rejected) : c \in TruncatedContents}

Sections == ShortSections \cup LongSections

-----------------------------------------------------------------------------

Init ==
    /\ enabled \in SUBSET Features
    /\ section \in Sections
    /\ pc = "idle"
    /\ callee = "none"
    /\ invoked = <<>>
    /\ capacity = NoCapacity
    /\ result = NoResult
    /\ memo = AtRest
    /\ thread = AtRest
    /\ conn = AtRest
    /\ logging = AtRest
    /\ mem_type = AtRest
    /\ trace = AtRest

Next ==
    \/ CompositeCall
    \/ CompositeBrotli
    \/ CompositeCrc32
    \/ CompositeLzma
    \/ CompositeUnsupported
    \/ CallCrc32
    \/ CallLzma
    \/ CallBrotli
    \/ Return

Spec == Init /\ [][Next]_vars

TypeOK ==
    /\ enabled \subseteq Features
    /\ pc \in {"idle", "brotli", "crc32", "lzma", "tail", "done"}
    /\ callee \in {"none", "Composite", "Crc32", "Lzma", "Brotli"}
    /\ result.tag \in {"None", "Ok", "Unsupported", "DataCorrupt", "Panic", "AllocFail"}

\* known answers of CRC-32: "" -> 00000000, "a" -> E8B7BE43
CrcVectors ==
    /\ Crc32Hash(<<>>) = <<0, 0>>
    /\ Crc32Hash(<<97>>) = <<48707, 59575>>
    /\ Crc32Hash(<<49, 50, 51, 52, 53, 54, 55, 56, 57>>) = <<14630, 52212>>

-----------------------------------------------------------------------------
(* A caller that makes one call after another on the same extractors, on   *)
(* sections of its choice, keeping the first result it got back            *)

NoMemo == [callee |-> "none", section |-> AtRest, result |-> NoResult]

\* 2^32 as the size field of an LZMA stream
FourGiB == <<0, 0, 0, 0, 1, 0, 0, 0>>

SeqSections ==
    {Sec("GuidDefined", CRC32_SECTION, U32ToLeBytes(Crc32Hash(<<97>>)), <<97>>,
         TRUE, Rejected),
     Sec("GuidDefined", CRC32_SECTION, DeadBeef, <<97>>, TRUE, Rejected),
     Sec("GuidDefined", LZMA_SECTION_GUID, <<>>,
         LzmaProps \o <<2, 0, 0, 0, 0, 0, 0, 0>> \o <<0>>, TRUE,
         [accept |-> TRUE, plain |-> <<72, 72>>]),
     Sec("GuidDefined", LZMA_SECTION_GUID, <<>>, LzmaProps \o FourGiB \o <<0>>,
         TRUE, Rejected),
     Sec("GuidDefined", LZMA_SECTION_GUID, <<>>, <<0, 1, 2, 3>>, TRUE, Rejected),
     Sec("GuidDefined", BROTLI_SECTION, <<>>,
         <<1, 0, 0, 0, 0, 0, 0, 0>> \o <<0, 0, 0, 0, 0, 0, 0, 0>> \o <<33>>,
         TRUE, [accept |-> TRUE, plain |-> <<72>>]),
     Sec("GuidDefined", WrongGuid, <<>>, <<97>>, TRUE, Rejected),
     Sec("Standard", <<>>, <<>>, <<97>>, TRUE, Rejected)}

\* extract has returned: the caller keeps the result if it is its first
\* and turns to a section for its next call; a panic or an abort on a
\* failed allocation ends the program instead
NextCall ==
    /\ pc = "done"
    /\ ~Crashed(result)
    /\ memo' = IF memo.callee = "none"
               THEN [callee |-> callee, section |-> section, result |-> result]
               ELSE memo
    /\ section' \in SeqSections
    /\ pc' = "idle"
    /\ callee' = "none"
    /\ invoked' = <<>>
    /\ capacity' = NoCapacity
    /\ result' = NoResult
    /\ UNCHANGED <<enabled, thread, conn, logging, mem_type, trace>>

InitSeq ==
    /\ enabled \in SUBSET Features
    /\ section \in SeqSections
    /\ pc = "idle"
    /\ callee = "none"
    /\ invoked = <<>>
    /\ capacity = NoCapacity
    /\ result = NoResult
    /\ memo = NoMemo
    /\ thread = AtRest
    /\ conn = AtRest
    /\ logging = AtRest
    /\ mem_type = AtRest
    /\ trace = AtRest

NextSeq ==
    \/ CompositeCall
    \/ CompositeBrotli
    \/ CompositeCrc32
    \/ CompositeLzma
    \/ CompositeUnsupported
    \/ CallCrc32
    \/ CallLzma
    \/ CallBrotli
    \/ NextCall

SpecSeq == InitSeq /\ [][NextSeq]_vars

-----------------------------------------------------------------------------
(* Threads calling extract on one shared CompositeSectionExtractor, each   *)
(* on a section of its own.  A call is taken one cfg(feature) block at a   *)
(* time, and the LZMA block in two steps: up to the allocation of the      *)
(* output buffer, then the decoding into it.  The threads share the        *)
(* global allocator and nothing else.                                      *)

Threads == {1, 2}

\* bytes the global allocator has to give in all: 2^32 + 1
PoolBytes == <<1, 0, 1, 0>>

\* a - b for u64 a >= b, limb by limb with borrow
U64Sub(a, b) ==
    LET d1 == a[1] - b[1]
        b1 == IF d1 < 0 THEN 1 ELSE 0
        d2 == a[2] - b[2] - b1
        b2 == IF d2 < 0 THEN 1 ELSE 0
        d3 == a[3] - b[3] - b2
        b3 == IF d3 < 0 THEN 1 ELSE 0
        d4 == a[4] - b[4] - b3
    IN  <<(d1 + 65536) % 65536, (d2 + 65536) % 65536,
          (d3 + 65536) % 65536, (d4 + 65536) % 65536>>

ConcSections ==
    {Sec("GuidDefined", CRC32_SECTION, U32ToLeBytes(Crc32Hash(<<97>>)), <<97>>,
         TRUE, Rejected),
     Sec("GuidDefined", LZMA_SECTION_GUID, <<>>,
         LzmaProps \o <<2, 0, 0, 0, 0, 0, 0, 0>> \o <<0>>, TRUE,
         [accept |-> TRUE, plain |-> <<72, 72>>]),
     Sec("GuidDefined", LZMA_SECTION_GUID, <<>>, LzmaProps \o FourGiB \o <<0>>,
         TRUE, [accept |-> TRUE, plain |-> <<72>>]),
     Sec("GuidDefined", LZMA_SECTION_GUID, <<>>, 
         LzmaProps \o <<255, 255, 255, 255, 255, 255, 255, 255>> \o <<0>>,
         TRUE, Rejected),
     Sec("GuidDefined", WrongGuid, <<>>, <<97>>, TRUE, Rejected)}

\* a thread between two calls, s being the section of its next call
Idle(s) == [pc |-> "idle", section |-> s, buf |-> U64Zero, result |-> NoResult]

\* the thread other than t
Other(t) == CHOOSE u \in Threads : u # t

\* bytes the allocator can give thread t: the pool less the capacity of the
\* buffer the other thread holds
Free(t) == U64Sub(PoolBytes, thread[Other(t)].buf)

Step(t, r) ==
    /\ thread' = [thread EXCEPT ![t] = r]
    /\ UNCHANGED <<extractor, memo, conn, logging, mem_type, trace>>

\* one block of extract on thread t: r is what the extractor returned
TBlock(t, r, next) ==
    IF Declined(r)
    THEN Step(t, [thread[t] EXCEPT !.pc = next])
    ELSE Step(t, [thread[t] EXCEPT !.pc = "done", !.result = r])

TCall(t) ==
    /\ thread[t].pc = "idle"
    /\ Step(t, [thread[t] EXCEPT !.pc = "brotli"])

TBrotli(t) ==
    /\ thread[t].pc = "brotli"
    /\ IF "brotli" \in enabled
       THEN TBlock(t, BrotliExtract(thread[t].section), "crc32")
       ELSE Step(t, [thread[t] EXCEPT !.pc = "crc32"])

TCrc32(t) ==
    /\ thread[t].pc = "crc32"
    /\ IF "crc32" \in enabled
       THEN TBlock(t, Crc32Extract(thread[t].section), "lzma")
       ELSE Step(t, [thread[t] EXCEPT !.pc = "lzma"])

\* the LZMA block up to Vec::new or Vec::with_capacity
TLzmaAlloc(t) ==
    /\ thread[t].pc = "lzma"
    /\ IF "lzma" \in enabled
       THEN LET run == LzmaRun(thread[t].section, Free(t))
            IN  IF run.cap.kind = "none" \/ Crashed(run.res)
                THEN TBlock(t, run.res, "tail")
                ELSE Step(t, [thread[t] EXCEPT !.pc = "decode",
                                               !.buf = run.cap.size])
       ELSE Step(t, [thread[t] EXCEPT !.pc = "tail"])

\* lzma_decompress into the buffer; on Err the buffer is dropped, on Ok it
\* is the Vec handed to the caller
TLzmaDecode(t) ==
    /\ thread[t].pc = "decode"
    /\ LET r == LzmaDecompress(thread[t].section)
       IN  Step(t, [thread[t] EXCEPT !.pc = "done", !.result = r,
                        !.buf = IF r.tag = "Ok" THEN @ ELSE U64Zero])

TUnsupported(t) ==
    /\ thread[t].pc = "tail"
    /\ Step(t, [thread[t] EXCEPT !.pc = "done", !.result = Unsupported])

\* the caller on thread t drops the result and turns to its next section
TReturn(t) ==
    /\ thread[t].pc = "done"
    /\ ~Crashed(thread[t].result)
    /\ \E s \in ConcSections : Step(t, Idle(s))

InitConc ==
    /\ enabled \in SUBSET Features
    /\ section = AtRest
    /\ pc = "idle"
    /\ callee = "none"
    /\ invoked = <<>>
    /\ capacity = NoCapacity
    /\ result = NoResult
    /\ memo = AtRest
    /\ thread \in [Threads -> {Idle(s) : s \in ConcSections}]
    /\ conn = AtRest
    /\ logging = AtRest
    /\ mem_type = AtRest
    /\ trace = AtRest

NextConc ==
    \E t \in Threads :
        \/ TCall(t)
        \/ TBrotli(t)
        \/ TCrc32(t)
        \/ TLzmaAlloc(t)
        \/ TLzmaDecode(t)
        \/ TUnsupported(t)
        \/ TReturn(t)

SpecConc == InitConc /\ [][NextConc]_vars

-----------------------------------------------------------------------------
(* SerialConnection of patina_debugger over a SerialIO transport.  The     *)
(* transport is the wire: rx holds the bytes that arrived and were not yet *)
(* read, tx the buffers written, in call order.  try_read takes the first  *)
(* byte of rx if there is one, read waits for one.                         *)

MaxRx == 2      \* most bytes waiting on the wire
MaxTx == 2      \* most buffers written in one behaviour

\* 0xDD and 0xEE of test_connection_peek
WireBytes == {221, 238}

None == <<>>
Some(x) == <<x>>

\* Ok(v) of a Result
OkVal(v) == [tag |-> "Ok", value |-> v]

\* the unit value of Ok(())
Unit == "()"

\* SerialConnection::new, on a wire with nothing written or arrived
NewConn ==
    [peeked_byte |-> None, rx |-> <<>>, tx |-> <<>>,
     last |-> "new", arg |-> None, calls |-> <<>>, ret |-> None]

\* a buffer of the byte and a zero
WriteBufPadded(byte) == <<byte, 0>>

\* let buff = [byte]
WriteBuf(byte) == <<byte>>

\* a read that leaves the peeked byte in place
TakenKept(peeked) == peeked

\* self.peeked_byte = None
Taken(peeked) == None

ConnStep(c) ==
    /\ conn' = c
    /\ UNCHANGED <<extractor, memo, thread, logging, mem_type, trace>>

\* a byte arrives on the wire
Arrive ==
    /\ Len(conn.rx) < MaxRx
    /\ \E b \in WireBytes :
           ConnStep([conn EXCEPT !.rx = Append(@, b), !.last = "arrive",
                                 !.arg = None, !.calls = <<>>, !.ret = None])

Write ==
    /\ Len(conn.tx) < MaxTx
    /\ \E byte \in WireBytes :
           ConnStep([conn EXCEPT !.tx = Append(@, WriteBuf(byte)),
                                 !.last = "write", !.arg = Some(byte),
                                 !.calls = <<"write">>, !.ret = OkVal(Unit)])

Flush ==
    /\ conn' = [conn EXCEPT !.last = "flush", !.arg = None, !.calls = <<>>,
                            !.ret = OkVal(Unit)]
    /\ UNCHANGED <<extractor, memo, thread, logging, mem_type, trace>>

\* transport.read() waits until a byte is there
Read ==
    IF conn.peeked_byte # None
    THEN ConnStep([conn EXCEPT !.peeked_byte = Taken(@), !.last = "read",
                               !.arg = None, !.calls = <<>>,
                               !.ret = OkVal(conn.peeked_byte[1])])
    ELSE /\ conn.rx # <<>>
         /\ ConnStep([conn EXCEPT !.rx = Tail(@), !.last = "read",
                                  !.arg = None, !.calls = <<"read">>,
                                  !.ret = OkVal(Head(conn.rx))])

Peek ==
    IF conn.peeked_byte # None
    THEN ConnStep([conn EXCEPT !.last = "peek", !.arg = None, !.calls = <<>>,
                               !.ret = OkVal(conn.peeked_byte)])
    ELSE IF conn.rx # <<>>
    THEN ConnStep([conn EXCEPT !.peeked_byte = Some(Head(conn.rx)),
                               !.rx = Tail(@), !.last = "peek", !.arg = None,
                               !.calls = <<"try_read">>,
                               !.ret = OkVal(Some(Head(conn.rx)))])
    ELSE ConnStep([conn EXCEPT !.last = "peek", !.arg = None,
                               !.calls = <<"try_read">>, !.ret = OkVal(None)])

InitSerial ==
    /\ enabled = {}
    /\ section = AtRest
    /\ pc = "idle"
    /\ callee = "none"
    /\ invoked = <<>>
    /\ capacity = NoCapacity
    /\ result = NoResult
    /\ memo = AtRest
    /\ thread = AtRest
    /\ conn = NewConn
    /\ logging = AtRest
    /\ mem_type = AtRest
    /\ trace = AtRest

NextSerial ==
    \/ Arrive
    \/ Write
    \/ Flush
    \/ Read
    \/ Peek

SpecSerial == InitSerial /\ [][NextSerial]_vars

-----------------------------------------------------------------------------
(* LoggingSuspender of patina_debugger.  max_level is the global maximum   *)
(* level of the log crate; live holds the level each suspender that was    *)
(* not dropped yet remembers, oldest first.  A suspender can be dropped at *)
(* any time; nested records that every drop so far was of the youngest.    *)

MaxNest == 3    \* most suspenders alive at a time

\* log::LevelFilter
LevelFilters == {"Off", "Error", "Warn", "Info", "Debug", "Trace"}

\* the level read after it was switched off
RememberedAfterOff(level) == "Off"

\* let level = log::max_level(), taken before set_max_level(Off)
Remembered(level) == level

\* live without its i-th suspender
Without(live, i) == SubSeq(live, 1, i - 1) \o SubSeq(live, i + 1, Len(live))

LogStep(l) ==
    /\ logging' = l
    /\ UNCHANGED <<extractor, memo, thread, conn, mem_type, trace>>

\* LoggingSuspender::suspend
Suspend ==
    /\ Len(logging.live) < MaxNest
    /\ LogStep([logging EXCEPT
                   !.live = Append(@, Remembered(logging.max_level)),
                   !.max_level = "Off",
                   !.deepest = IF Len(logging.live) + 1 > @
                               THEN Len(logging.live) + 1 ELSE @])

\* Drop::drop of the i-th live suspender
DropSuspender ==
    \E i \in 1..Len(logging.live) :
        LogStep([logging EXCEPT
                   !.live = Without(@, i),
                   !.max_level = logging.live[i],
                   !.nested = @ /\ i = Len(logging.live)])

InitLog ==
    /\ enabled = {}
    /\ section = AtRest
    /\ pc = "idle"
    /\ callee = "none"
    /\ invoked = <<>>
    /\ capacity = NoCapacity
    /\ result = NoResult
    /\ memo = AtRest
    /\ thread = AtRest
    /\ conn = AtRest
    /\ \E level \in LevelFilters :
           logging = [max_level |-> level, original |-> level, live |-> <<>>,
                      nested |-> TRUE, deepest |-> 0]
    /\ mem_type = AtRest
    /\ trace = AtRest

NextLog ==
    \/ Suspend
    \/ DropSuspender

SpecLog == InitLog /\ [][NextLog]_vars

-----------------------------------------------------------------------------
(* EfiMemoryType of the patina sdk: from_efi and the conversion back to    *)
(* efi::MemoryType.  An efi::MemoryType is a u32, kept as <<lo, hi>>.      *)

\* the memory type constants of r_efi, as the UEFI specification numbers them
efi ==
    [RESERVED_MEMORY_TYPE |-> 0,
     LOADER_CODE |-> 1,
     LOADER_DATA |-> 2,
     BOOT_SERVICES_CODE |-> 3,
     BOOT_SERVICES_DATA |-> 4,
     RUNTIME_SERVICES_CODE |-> 5,
     RUNTIME_SERVICES_DATA |-> 6,
     CONVENTIONAL_MEMORY |-> 7,
     UNUSABLE_MEMORY |-> 8,
     ACPI_RECLAIM_MEMORY |-> 9,
     ACPI_MEMORY_NVS |-> 10,
     MEMORY_MAPPED_IO |-> 11,
     MEMORY_MAPPED_IO_PORT_SPACE |-> 12,
     PAL_CODE |-> 13,
     PERSISTENT_MEMORY |-> 14,
     UNACCEPTED_MEMORY_TYPE |-> 15]

\* the enum: each named variant with the constant that is its discriminant
EfiMemoryType ==
    [ReservedMemoryType |-> "RESERVED_MEMORY_TYPE",
     LoaderCode |-> "LOADER_CODE",
     LoaderData |-> "LOADER_DATA",
     BootServicesCode |-> "BOOT_SERVICES_CODE",
     BootServicesData |-> "BOOT_SERVICES_DATA",
     RuntimeServicesCode |-> "RUNTIME_SERVICES_CODE",
     RuntimeServicesData |-> "RUNTIME_SERVICES_DATA",
     ConventionalMemory |-> "CONVENTIONAL_MEMORY",
     UnusableMemory |-> "UNUSABLE_MEMORY",
     ACPIReclaimMemory |-> "ACPI_RECLAIM_MEMORY",
     ACPIMemoryNVS |-> "ACPI_MEMORY_NVS",
     MemoryMappedIO |-> "MEMORY_MAPPED_IO",
     MemoryMappedIOPortSpace |-> "MEMORY_MAPPED_IO_PORT_SPACE",
     PalCode |-> "PAL_CODE",
     PersistentMemory |-> "PERSISTENT_MEMORY",
     UnacceptedMemoryType |-> "UNACCEPTED_MEMORY_TYPE"]

\* the arms of from_efi's match that name a constant, in their order
FromEfiArms ==
    <<<<"RESERVED_MEMORY_TYPE", "ReservedMemoryType">>,
      <<"LOADER_CODE", "LoaderCode">>,
      <<"LOADER_DATA", "LoaderData">>,
      <<"BOOT_SERVICES_CODE", "BootServicesCode">>,
      <<"BOOT_SERVICES_DATA", "BootServicesData">>,
      <<"RUNTIME_SERVICES_CODE", "RuntimeServicesCode">>,
      <<"RUNTIME_SERVICES_DATA", "RuntimeServicesData">>,
      <<"CONVENTIONAL_MEMORY", "ConventionalMemory">>,
      <<"UNUSABLE_MEMORY", "UnusableMemory">>,
      <<"ACPI_RECLAIM_MEMORY", "ACPIReclaimMemory">>,
      <<"ACPI_MEMORY_NVS", "ACPIMemoryNVS">>,
      <<"MEMORY_MAPPED_IO", "MemoryMappedIO">>,
      <<"MEMORY_MAPPED_IO_PORT_SPACE", "MemoryMappedIOPortSpace">>,
      <<"PAL_CODE", "PalCode">>,
      <<"PERSISTENT_MEMORY", "PersistentMemory">>,
      <<"UNACCEPTED_MEMORY_TYPE", "UnacceptedMemoryType">>>>

\* 0x70000001
OemFirstPlus1 == <<1, 28672>>

\* 0x70000000..=0x7FFFFFFF
OemFirst == <<0, 28672>>
OemLast == <<65535, 32767>>

\* 0x80000000..=0xFFFFFFFF
OsFirst == <<0, 32768>>
OsLast == <<65535, 65535>>

U32Leq(a, b) == a[2] < b[2] \/ (a[2] = b[2] /\ a[1] <= b[1])

InRange(first, v, last) == U32Leq(first, v) /\ U32Leq(v, last)

ErrVal(e) == [tag |-> "Err", value |-> e]

Named(variant) == [variant |-> variant, memory_type |-> None]

\* OemMemoryType(CustomMemoryType { memory_type: value }), and the Os one
Custom(variant, value) == [variant |-> variant, memory_type |-> Some(value)]

FromEfi(value) ==
    LET hits == {i \in 1..Len(FromEfiArms) :
                    value = <<efi[FromEfiArms[i][1]], 0>>}
    IN  IF hits # {}
        THEN OkVal(Named(FromEfiArms[CHOOSE i \in hits :
                                         \A j \in hits : i <= j][2]))
        ELSE IF InRange(OemFirst, value, OemLast)
        THEN OkVal(Custom("OemMemoryType", value))
        ELSE IF InRange(OsFirst, value, OsLast)
        THEN OkVal(Custom("OsMemoryType", value))
        ELSE ErrVal("InvalidParameter")

\* From<EfiMemoryType> for efi::MemoryType
IntoEfi(t) ==
    IF t.variant \in {"OemMemoryType", "OsMemoryType"}
    THEN t.memory_type[1]
    ELSE <<efi[EfiMemoryType[t.variant]], 0>>

\* values tried: around the named codes and at the ends of both ranges
EfiValues ==
    {<<lo, hi>> : lo \in 0..17 \cup {4096, 65534, 65535},
                  hi \in {0, 1, 28671, 28672, 32767, 32768, 65535}}

MemStep(m) ==
    /\ mem_type' = m
    /\ UNCHANGED <<extractor, memo, thread, conn, logging, trace>>

CallFromEfi ==
    /\ mem_type.out = None
    /\ MemStep([mem_type EXCEPT !.out = Some(FromEfi(mem_type.value))])

CallInto ==
    /\ mem_type.out # None
    /\ mem_type.out[1].tag = "Ok"
    /\ mem_type.back = None
    /\ MemStep([mem_type EXCEPT !.back = Some(IntoEfi(mem_type.out[1].value))])

InitEfi ==
    /\ enabled = {}
    /\ section = AtRest
    /\ pc = "idle"
    /\ callee = "none"
    /\ invoked = <<>>
    /\ capacity = NoCapacity
    /\ result = NoResult
    /\ memo = AtRest
    /\ thread = AtRest
    /\ conn = AtRest
    /\ logging = AtRest
    /\ \E v \in EfiValues : mem_type = [value |-> v, out |-> None, back |-> None]
    /\ trace = AtRest

NextEfi ==
    \/ CallFromEfi
    \/ CallInto

SpecEfi == InitEfi /\ [][NextEfi]_vars

-----------------------------------------------------------------------------
(* resolve_stacktrace: create_stack_frame and create_stack_frames.  A      *)
(* string is the sequence of its characters.                               *)

IsWhitespace(c) == c \in {" ", "\t"}

RECURSIVE SplitFrom(_, _, _, _)
\* the tokens of line from position i on, tok being the token under way
SplitFrom(line, i, tok, acc) ==
    IF i > Len(line)
    THEN IF tok = <<>> THEN acc ELSE Append(acc, tok)
    ELSE IF IsWhitespace(line[i])
    THEN SplitFrom(line, i + 1, <<>>, IF tok = <<>> THEN acc ELSE Append(acc, tok))
    ELSE SplitFrom(line, i + 1, Append(tok, line[i]), acc)

\* line.split_whitespace().collect()
SplitWhitespace(line) == SplitFrom(line, 1, <<>>, <<>>)

\* str::split_once('+'): split at the first '+'
SplitOncePlus(str) ==
    LET at == {i \in 1..Len(str) : str[i] = "+"}
    IN  IF at = {} THEN None
        ELSE LET k == CHOOSE i \in at : \A j \in at : i <= j
             IN  Some(<<SubSeq(str, 1, k - 1), SubSeq(str, k + 1, Len(str))>>)

RECURSIVE RFindPlus(_, _)
\* position of the last '+' at or before i, 0 if there is none
RFindPlus(str, i) ==
    IF i = 0 THEN 0
    ELSE IF str[i] = "+" THEN i
    ELSE RFindPlus(str, i - 1)

\* str::rsplit_once('+'): split at the last '+'
RSplitOncePlus(str) ==
    LET k == RFindPlus(str, Len(str))
    IN  IF k = 0 THEN None
        ELSE Some(<<SubSeq(str, 1, k - 1), SubSeq(str, k + 1, Len(str))>>)

\* s.strip_prefix("0x").unwrap_or(s)
StripPrefix0x(str) ==
    IF Len(str) >= 2 /\ str[1] = "0" /\ str[2] = "x"
    THEN SubSeq(str, 3, Len(str))
    ELSE str

LowerDigits == <<"0", "1", "2", "3", "4", "5", "6", "7", "8", "9", "a", "b", "c", "d", "e", "f">>
UpperDigits == <<"A", "B", "C", "D", "E", "F">>

\* char::to_digit(16), -1 standing for None
ToDigit(c) ==
    IF \E i \in 1..16 : LowerDigits[i] = c
    THEN (CHOOSE i \in 1..16 : LowerDigits[i] = c) - 1
    ELSE IF \E i \in 1..6 : UpperDigits[i] = c
    THEN (CHOOSE i \in 1..6 : UpperDigits[i] = c) + 9
    ELSE -1

RECURSIVE ParseDigits(_, _, _)
\* the digit loop of from_str_radix: acc * 16 + digit, checked, acc being
\* a u32 as <<lo, hi>>
ParseDigits(str, i, acc) ==
    IF i > Len(str) THEN OkVal(acc)
    ELSE LET d == ToDigit(str[i])
         IN  IF d < 0 THEN ErrVal("InvalidDigit")
             ELSE IF acc[2] >= 4096 THEN ErrVal("PosOverflow")
             ELSE LET lo == acc[1] * 16 + d
                  IN  ParseDigits(str, i + 1,
                                  <<lo % 65536, acc[2] * 16 + lo \div 65536>>)

\* u32::from_str_radix(str, 16): an empty string and a lone sign are
\* errors, a leading '+' is taken as a sign
FromStrRadix16(str) ==
    IF str = <<>> THEN ErrVal("Empty")
    ELSE IF str = <<"+">> \/ str = <<"-">> THEN ErrVal("InvalidDigit")
    ELSE IF str[1] = "+" THEN ParseDigits(str, 2, <<0, 0>>)
    ELSE ParseDigits(str, 1, <<0, 0>>)

\* create_stack_frame(line)
CreateStackFrame(line) ==
    LET parts == SplitWhitespace(line)
        idx == Len(parts)
    IN  IF idx < 4 THEN None
        ELSE LET split == RSplitOncePlus(parts[idx])
             IN  IF split = None THEN None
                 ELSE LET module_name == split[1][1]
                          start_rva_str == StripPrefix0x(split[1][2])
                          start_rva == FromStrRadix16(start_rva_str)
                      IN  IF start_rva.tag # "Ok" THEN None
                          ELSE Some([frame_number |-> parts[idx - 3],
                                     child_stack_pointer |-> parts[idx - 2],
                                     return_address |-> parts[idx - 1],
                                     module_name |-> module_name,
                                     start_rva |-> start_rva.value,
                                     file |-> None,
                                     line |-> None,
                                     function |-> None,
                                     offset |-> 0,
                                     error |-> None])

RECURSIVE TrimStart(_)
TrimStart(str) ==
    IF str # <<>> /\ IsWhitespace(Head(str)) THEN TrimStart(Tail(str)) ELSE str

RECURSIVE TrimEnd(_)
TrimEnd(str) ==
    IF str # <<>> /\ IsWhitespace(str[Len(str)])
    THEN TrimEnd(SubSeq(str, 1, Len(str) - 1))
    ELSE str

\* str::trim
Trim(str) == TrimEnd(TrimStart(str))

\* str::contains
Contains(str, pat) ==
    \E i \in 1..(Len(str) - Len(pat) + 1) : SubSeq(str, i, i + Len(pat) - 1) = pat

ReturnAddress == <<"R", "e", "t", "u", "r", "n", " ", "A", "d", "d", "r", "e", "s", "s">>

\* a header test that takes no line for the header
IsHeaderNever(line) == FALSE

\* line.contains("Return Address")
IsHeader(line) == Contains(line, ReturnAddress)

RECURSIVE FilterMap(_, _, _)
\* the filter_map of create_stack_frames over lines[i..], collected
FilterMap(lines, i, acc) ==
    IF i > Len(lines) THEN acc
    ELSE LET line == Trim(lines[i])
             frame == IF line = <<>> THEN None
                      ELSE IF IsHeader(line) THEN None
                      ELSE CreateStackFrame(line)
         IN  FilterMap(lines, i + 1, IF frame = None THEN acc ELSE Append(acc, frame[1]))

\* create_stack_frames(stack_frames)
CreateStackFrames(stack_frames) == FilterMap(stack_frames, 1, <<>>)

(* Inputs *)

MaxTokenLen == 4    \* longest last token made of TokenChars
MaxLines == 3       \* most lines handed to create_stack_frames

TokenChars == {"+", "0", "x", "1", "g"}

\* last tokens of the tests and of the limits of u32
LongTokens ==
    {<<"D", "x", "e", "C", "o", "r", "e", "+", "0", "x", "4", "5", "a", "3">>,
     <<"M", "+", "0", "x", "A", "B", "C", "D">>,
     <<"M", "+", "0", "x", "a", "b", "c", "d">>,
     <<"M", "+", "0", "X", "A", "B">>,
     <<"M", "+", "0", "x", "F", "F", "F", "F", "F", "F", "F", "F">>,
     <<"M", "+", "0", "x", "1", "0", "0", "0", "0", "0", "0", "0", "0">>,
     <<"M", "+", "0", "0", "0", "0", "0", "0", "0", "0", "0", "1">>,
     <<"M", "+", "f", "f", "f", "f", "f", "f", "f", "f", "f">>,
     <<"D", "x", "e", "C", "o", "r", "e", "0", "x", "4", "5", "a", "3">>,
     <<"M", "+", "0", "x", "G", "G", "G", "G">>,
     <<"M", "+", "-", "1">>,
     <<"a", "+", "b", "+", "0", "x", "1", "f">>}

LastTokens == (SeqsUpTo(TokenChars, MaxTokenLen) \ {<<>>}) \cup LongTokens

\* the tokens before the last one
Prefixes ==
    {<<>>, <<<<"a", "e">>>>, <<<<"c", "d">>, <<"a", "e">>>>,
     <<<<"0", "0">>, <<"c", "d">>, <<"a", "e">>>>,
     <<<<"#">>, <<"0", "0">>, <<"c", "d">>, <<"a", "e">>>>}

RECURSIVE Join(_, _)
\* the tokens with sep between them
Join(tokens, sep) ==
    IF Len(tokens) = 1 THEN tokens[1]
    ELSE tokens[1] \o sep \o Join(Tail(tokens), sep)

\* lines for create_stack_frame: 1 to 5 tokens, separated by one or two
\* whitespace characters, bare or padded, and two lines without a token
FrameLines ==
    {pad \o Join(Append(pre, last), sep) \o pad :
        pre \in Prefixes, last \in LastTokens, sep \in {<<" ">>, <<" ", "\t">>},
        pad \in {<<>>, <<" ">>}}
    \cup {<<>>, <<" ", " ">>}

\* lines for create_stack_frames: frames, the header, blank lines, a line
\* that is no frame, a frame holding the header text, a padded frame
StackLines ==
    {<<"0", "0", " ", "c", "d", " ", "a", "e", " ", "D", "x", "e", "C", "o", "r", "e", "+", "0", "x", "4", "5", "a", "3">>,
     <<"0", "1", " ", "c", "d", " ", "a", "e", " ", "T", "e", "s", "t", "M", "o", "d", "+", "0", "x", "1", "0", "0", "0">>,
     <<"#", " ", "C", "h", "i", "l", "d", "-", "S", "P", " ", " ", " ", "R", "e", "t", "u", "r", "n", " ", "A", "d", "d", "r", "e", "s", "s", " ", " ", " ", "C", "a", "l", "l", " ", "S", "i", "t", "e">>,
     <<>>,
     <<" ", " ", " ">>,
     <<"i", "n", "v", "a", "l", "i", "d", " ", "l", "i", "n", "e">>,
     <<"0", "0", " ", "R", "e", "t", "u", "r", "n", " ", "A", "d", "d", "r", "e", "s", "s", " ", "M", "+", "0", "x", "1">>,
     <<" ", " ", "0", "2", " ", "c", "d", " ", "a", "e", " ", "M", "+", "0", "x", "2", "0", "0", "0", " ", " ">>,
     <<"0", "0", " ", "c", "d", " ", "a", "e", " ", "M", "+", "0", "x", "G", "G", "G", "G">>}

NotCalled == [called |-> FALSE, ret |-> None]

Returned(v) == [called |-> TRUE, ret |-> v]

TraceStep(t) ==
    /\ trace' = t
    /\ UNCHANGED <<extractor, memo, thread, conn, logging, mem_type>>

\* create_stack_frame on the line handed in alone
CallCreateStackFrame ==
    /\ Len(trace.stack_frames) = 1
    /\ ~trace.frame.called
    /\ TraceStep([trace EXCEPT
                     !.frame = Returned(CreateStackFrame(trace.stack_frames[1]))])

CallCreateStackFrames ==
    /\ ~trace.frames.called
    /\ TraceStep([trace EXCEPT
                     !.frames = Returned(CreateStackFrames(trace.stack_frames))])

InitTrace ==
    /\ enabled = {}
    /\ section = AtRest
    /\ pc = "idle"
    /\ callee = "none"
    /\ invoked = <<>>
    /\ capacity = NoCapacity
    /\ result = NoResult
    /\ memo = AtRest
    /\ thread = AtRest
    /\ conn = AtRest
    /\ logging = AtRest
    /\ mem_type = AtRest
    /\ \E ls \in {<<l>> : l \in FrameLines} \cup SeqsUpTo(StackLines, MaxLines) :
           trace = [stack_frames |-> ls, frame |-> NotCalled, frames |-> NotCalled]

NextTrace ==
    \/ CallCreateStackFrame
    \/ CallCreateStackFrames

SpecTrace == InitTrace /\ [][NextTrace]_vars

-----------------------------------------------------------------------------
(* Properties *)

\* the order of the cfg(feature) blocks in the composite's extract
Order == <<"brotli", "crc32", "lzma">>

IsEnabled(f) == f \in enabled

\* what the extractor of feature f can return for section s, called alone
Outcomes(f, s) ==
    CASE f = "brotli" -> {BrotliExtract(s)}
      [] f = "crc32" -> {Crc32Extract(s)}
      [] f = "lzma" -> {LzmaExtract(s, mem) : mem \in AllocatorMemory}

Declines(f, s) == \A r \in Outcomes(f, s) : r.tag = "Unsupported"

\* the identifier each codec owns
GuidOf(f) ==
    CASE f = "brotli" -> BROTLI_SECTION
      [] f = "crc32" -> CRC32_SECTION
      [] f = "lzma" -> LZMA_SECTION_GUID

U64ToLeBytes(v) ==
    <<v[1] % 256, v[1] \div 256, v[2] % 256, v[2] \div 256,
      v[3] % 256, v[3] \div 256, v[4] % 256, v[4] \div 256>>

Sentinel == <<255, 255, 255, 255, 255, 255, 255, 255>>

CompositeDone == callee = "Composite" /\ pc = "done"
Crc32Done == callee = "Crc32" /\ pc = "done"
LzmaDone == callee = "Lzma" /\ pc = "done"

\* C1: the composite invokes the enabled extractors in the order brotli,
\* crc32, lzma, each only after all earlier ones returned Unsupported; it
\* stops at the first one whose result is not Unsupported and returns that
\* result; it returns Unsupported only after all of them declined.
C1_FirstMatchDecides ==
    callee = "Composite" =>
        LET order == SelectSeq(Order, IsEnabled)
            n == Len(invoked)
        IN  /\ n <= Len(order)
            /\ invoked = SubSeq(order, 1, n)
            /\ \A i \in 1..(n - 1) : Declines(invoked[i], section)
            /\ pc # "done" =>
                   /\ result = NoResult
                   /\ \A i \in 1..n : Declines(invoked[i], section)
            /\ pc = "done" =>
                   IF n > 0 /\ ~Declines(invoked[n], section)
                   THEN result \in Outcomes(invoked[n], section)
                   ELSE n = Len(order) /\ result = Unsupported

\* a DataCorrupt of crc32 returned with lzma enabled and never invoked
C1_Witness ==
    /\ CompositeDone
    /\ enabled = Features
    /\ invoked = <<"brotli", "crc32">>
    /\ result = DataCorrupt

\* C2: the composite returns Unsupported exactly when every enabled
\* extractor returns Unsupported for the section (always, when none is
\* enabled).
C2_UnsupportedIffAllDecline ==
    CompositeDone =>
        (result = Unsupported <=> \A f \in enabled : Declines(f, section))

C2_Witness ==
    /\ CompositeDone
    /\ enabled = Features
    /\ invoked = Order
    /\ IsGuidDefined(section)
    /\ result = Unsupported

\* C3: a CRC32 section whose header extension is the little-endian CRC-32 of
\* its content is extracted to exactly that content.
C3_ValidChecksumRoundTrip ==
    (/\ Crc32Done
     /\ IsGuidDefined(section)
     /\ section.guid = CRC32_SECTION
     /\ section.storage_ok
     /\ Len(section.ext) = 4
     /\ section.ext = U32ToLeBytes(Crc32Hash(section.content)))
    => result = Ok(section.content)

C3_Witness ==
    /\ Crc32Done
    /\ section.guid = CRC32_SECTION
    /\ Len(section.content) = MaxContentLen
    /\ Len(section.ext) = 4
    /\ section.ext = U32ToLeBytes(Crc32Hash(section.content))
    /\ result = Ok(section.content)

\* C4: a CRC32 section whose 4-byte header extension is not the CRC-32 of
\* its content is answered with DataCorrupt.
C4_WrongChecksumIsCorrupt ==
    (/\ Crc32Done
     /\ IsGuidDefined(section)
     /\ section.guid = CRC32_SECTION
     /\ section.storage_ok
     /\ Len(section.ext) = 4
     /\ section.ext # U32ToLeBytes(Crc32Hash(section.content)))
    => result = DataCorrupt

C4_Witness ==
    /\ Crc32Done
    /\ section.guid = CRC32_SECTION
    /\ section.storage_ok
    /\ section.ext = DeadBeef
    /\ section.content # <<>>
    /\ result = DataCorrupt

\* C5: a CRC32 section whose header extension has fewer than 4 bytes is
\* answered with DataCorrupt, whatever its content.
C5_ShortHeaderIsCorrupt ==
    (/\ Crc32Done
     /\ IsGuidDefined(section)
     /\ section.guid = CRC32_SECTION
     /\ Len(section.ext) < 4)
    => result = DataCorrupt

C5_Witness ==
    /\ Crc32Done
    /\ section.guid = CRC32_SECTION
    /\ Len(section.ext) = 3
    /\ result = DataCorrupt

\* C6: a CRC32 section whose header extension has 4 bytes or more is
\* answered without a panic: Ok(content) when the first 4 bytes are the
\* little-endian CRC-32 of the content, DataCorrupt otherwise.
C6_LongHeaderNoPanic ==
    (/\ Crc32Done
     /\ IsGuidDefined(section)
     /\ section.guid = CRC32_SECTION
     /\ section.storage_ok
     /\ Len(section.ext) >= 4)
    => result = IF SubSeq(section.ext, 1, 4) = U32ToLeBytes(Crc32Hash(section.content))
                THEN Ok(section.content)
                ELSE DataCorrupt

\* C7: a section that is not GuidDefined, or whose GUID is the identifier of
\* no enabled codec, gets Unsupported from every extractor and from the
\* composite, whatever its header extension and content.
C7_UnknownIsUnsupported ==
    (/\ pc = "done"
     /\ \/ ~IsGuidDefined(section)
        \/ section.guid \notin {GuidOf(f) : f \in enabled})
    => result = Unsupported

C7_Witness ==
    /\ CompositeDone
    /\ enabled = Features
    /\ section.guid = NearLzmaGuid
    /\ Len(section.ext) < 4
    /\ Len(section.content) < 13
    /\ result = Unsupported

\* C8: an LZMA section is answered with DataCorrupt whenever its content has
\* fewer than 13 bytes or the decoder rejects its stream, with Ok only with
\* the decoder's whole output, and never with Unsupported.
C8_LzmaCorruptOrComplete ==
    (/\ LzmaDone
     /\ IsGuidDefined(section)
     /\ section.guid = LZMA_SECTION_GUID
     /\ section.storage_ok)
    => /\ (Len(section.content) < 13 \/ ~section.decoded.accept)
              => result = DataCorrupt
       /\ result.tag = "Ok" =>
              section.decoded.accept /\ result.bytes = section.decoded.plain
       /\ result.tag # "Unsupported"

\* C9: with the sentinel in the size field the LZMA extractor starts from an
\* empty buffer (Vec::new) and returns what the decoder yields; with any
\* other value it asks for a buffer of exactly the declared size.
C9_SentinelNotAllocated ==
    (/\ LzmaDone
     /\ IsGuidDefined(section)
     /\ section.guid = LZMA_SECTION_GUID
     /\ section.storage_ok
     /\ Len(section.content) >= 13)
    => IF SubSeq(section.content, 6, 13) = Sentinel
       THEN /\ capacity = [kind |-> "new", size |-> U64Zero]
            /\ result = IF section.decoded.accept
                        THEN Ok(section.decoded.plain)
                        ELSE DataCorrupt
       ELSE /\ capacity.kind = "with_capacity"
            /\ U64ToLeBytes(capacity.size) = SubSeq(section.content, 6, 13)

C9_Witness ==
    /\ LzmaDone
    /\ section.guid = LZMA_SECTION_GUID
    /\ Len(section.content) >= 13
    /\ SubSeq(section.content, 6, 13) = Sentinel
    /\ capacity.kind = "new"
    /\ result.tag = "Ok"
    /\ Len(result.bytes) = MaxPlainLen

\* C10: with any declared size other than the sentinel the LZMA extractor
\* does not crash: it returns Ok with the decoder's output or an error.
C10_DeclaredSizeNoCrash ==
    (/\ LzmaDone
     /\ IsGuidDefined(section)
     /\ section.guid = LZMA_SECTION_GUID
     /\ section.storage_ok
     /\ Len(section.content) >= 13
     /\ SubSeq(section.content, 6, 13) # Sentinel)
    => /\ ~Crashed(result)
       /\ result.tag = "Ok" => result.bytes = section.decoded.plain

\* the extractor of feature f gets as far as reading the content of s: its
\* identifier matches and, for crc32, the 4-byte header was taken first
ReadsContent(f, s) ==
    /\ IsGuidDefined(s)
    /\ s.guid = GuidOf(f)
    /\ f = "crc32" => Len(s.ext) = 4

ResultOf(f, s, mem) ==
    CASE f = "brotli" -> BrotliExtract(s)
      [] f = "crc32" -> Crc32Extract(s)
      [] f = "lzma" -> LzmaExtract(s, mem)

RECURSIVE ChainResult(_, _, _)
\* the composite's result were its blocks written in the order given
ChainResult(order, s, mem) ==
    IF order = <<>> THEN Unsupported
    ELSE LET r == ResultOf(Head(order), s, mem)
         IN  IF r.tag = "Unsupported"
             THEN ChainResult(Tail(order), s, mem)
             ELSE r

\* every order in which the extractors of the set fs can be tried
Orders(fs) ==
    {p \in [1..Cardinality(fs) -> fs] :
        \A i, j \in 1..Cardinality(fs) : p[i] = p[j] => i = j}

\* C14: at most one enabled extractor answers a section with anything but
\* Unsupported, the identifiers being distinct and compared for equality,
\* so the composite returns what it would return with its extractors
\* tried in any other order.
C14_OrderIndependent ==
    CompositeDone =>
        /\ Cardinality({f \in enabled : ~Declines(f, section)}) <= 1
        /\ \A mem \in AllocatorMemory : \A p, q \in Orders(enabled) :
               ChainResult(p, section, mem) = ChainResult(q, section, mem)
        /\ \A p \in Orders(enabled) :
               result \in {ChainResult(p, section, mem) : mem \in AllocatorMemory}

\* an LZMA section decoded behind two extractors that declined it
C14_Witness ==
    /\ CompositeDone
    /\ enabled = Features
    /\ section.guid = LZMA_SECTION_GUID
    /\ invoked = Order
    /\ result.tag = "Ok"
    /\ result.bytes # <<>>

\* C12: the extractors keep no state: after any calls made before, on any
\* sections, a call of extract on a section returns what the first call
\* of the same extractor on that section returned.
C12_SameAsFirstCall ==
    (/\ pc = "done"
     /\ memo.callee = callee
     /\ memo.section = section)
    => result = memo.result

\* what a call of the shared composite on s returns when no other call is
\* running, the allocator having its whole pool to give
Alone(s) == ChainResult(SelectSeq(Order, IsEnabled), s, PoolBytes)

\* C13: threads calling extract on one shared extractor at the same time
\* get, under every interleaving, each the result its call returns when it
\* runs alone.
C13_AsWhenRunAlone ==
    \A t \in Threads :
        thread[t].pc = "done" => thread[t].result = Alone(thread[t].section)

\* what a step that is a call of peek or read has to do
PeekedThenServed ==
    /\ (conn'.last = "peek" /\ conn.peeked_byte # None) =>
           /\ conn'.ret = OkVal(conn.peeked_byte)
           /\ conn'.calls = <<>>
           /\ conn'.rx = conn.rx
           /\ conn'.peeked_byte = conn.peeked_byte
    /\ (conn'.last = "read" /\ conn.peeked_byte # None) =>
           /\ conn'.ret = OkVal(conn.peeked_byte[1])
           /\ conn'.calls = <<>>
           /\ conn'.rx = conn.rx
           /\ conn'.peeked_byte = None
    /\ (conn'.last = "peek" /\ conn.peeked_byte = None) =>
           /\ conn'.calls = <<"try_read">>
           /\ IF conn.rx = <<>>
              THEN /\ conn'.ret = OkVal(None)
                   /\ conn'.peeked_byte = None
                   /\ conn'.rx = <<>>
              ELSE /\ conn'.ret = OkVal(Some(Head(conn.rx)))
                   /\ conn'.peeked_byte = Some(Head(conn.rx))
                   /\ conn'.rx = Tail(conn.rx)

\* C15: a peek that finds a byte buffers it; every further peek before the
\* next read returns that byte without a try_read, the next read returns
\* it without a transport read and empties the buffer, so that the peek
\* after it polls the transport again; a peek whose try_read finds nothing
\* returns None and buffers nothing.
C15_PeekedThenServed == [][PeekedThenServed]_vars

\* a read served from the buffer while another byte waits on the wire
C15_Witness ==
    /\ conn.last = "read"
    /\ conn.calls = <<>>
    /\ conn.peeked_byte = None
    /\ conn.ret = OkVal(221)
    /\ conn.rx = <<238>>

\* what a step that is a call of write or flush has to do
WriteThrough ==
    /\ conn'.last = "write" =>
           /\ conn'.arg # None
           /\ conn'.tx = Append(conn.tx, <<conn'.arg[1]>>)
           /\ conn'.calls = <<"write">>
           /\ conn'.ret = OkVal(Unit)
           /\ conn'.rx = conn.rx
           /\ conn'.peeked_byte = conn.peeked_byte
    /\ conn'.last = "flush" =>
           /\ conn'.calls = <<>>
           /\ conn'.ret = OkVal(Unit)
           /\ conn'.tx = conn.tx
           /\ conn'.rx = conn.rx
           /\ conn'.peeked_byte = conn.peeked_byte

\* C20: every write(b) makes exactly one transport write, of the one-byte
\* buffer [b], in call order, and returns Ok; flush returns Ok and makes no
\* transport call; neither changes the peeked byte.
C20_WriteThrough == [][WriteThrough]_vars

\* two different bytes written behind a peeked byte
C20_Witness ==
    /\ conn.last = "write"
    /\ conn.peeked_byte = Some(221)
    /\ conn.tx = <<<<238>>, <<221>>>>
    /\ conn.ret = OkVal(Unit)

\* C16: suspend() sets the global maximum level to Off and remembers the
\* level in force; a drop restores the remembered level.  While every drop
\* was of the youngest suspender alive, the level is Off as long as a
\* suspender is alive and is the original level once the outermost one is
\* dropped.
C16_OffWhileSuspended ==
    logging.nested =>
        /\ \A i \in 1..Len(logging.live) :
               logging.live[i] = IF i = 1 THEN logging.original ELSE "Off"
        /\ logging.live # <<>> => logging.max_level = "Off"
        /\ logging.live = <<>> => logging.max_level = logging.original

\* back at Info after two suspenders, one inside the other
C16_Witness ==
    /\ logging.nested
    /\ logging.deepest >= 2
    /\ logging.live = <<>>
    /\ logging.original = "Info"
    /\ logging.max_level = "Info"

\* the highest code of a named memory type
LastStandard ==
    CHOOSE m \in {efi[c] : c \in DOMAIN efi} : \A c \in DOMAIN efi : efi[c] <= m

\* C17: from_efi(v) is Err(InvalidParameter) exactly when v lies above the
\* last standard code and below 0x70000000; a standard code gives the named
\* variant whose code it is, a value in 0x70000000..=0x7FFFFFFF gives
\* OemMemoryType and one in 0x80000000..=0xFFFFFFFF gives OsMemoryType,
\* both carrying v.
C17_FromEfiTotal ==
    mem_type.out # None =>
        LET v == mem_type.value
            out == mem_type.out[1]
            standard == v[2] = 0 /\ v[1] <= LastStandard
        IN  /\ out = ErrVal("InvalidParameter")
                   <=> (~standard /\ v[2] < 28672)
            /\ standard =>
                   /\ out.tag = "Ok"
                   /\ out.value.variant \in DOMAIN EfiMemoryType
                   /\ efi[EfiMemoryType[out.value.variant]] = v[1]
            /\ (v[2] >= 28672 /\ v[2] <= 32767) =>
                   out = OkVal(Custom("OemMemoryType", v))
            /\ v[2] >= 32768 => out = OkVal(Custom("OsMemoryType", v))

\* 0x70000000, the first OEM type, accepted
C17_Witness ==
    /\ mem_type.value = <<0, 28672>>
    /\ mem_type.out = Some(OkVal(Custom("OemMemoryType", <<0, 28672>>)))

\* an accepted value converts back to itself
IntoEfiRoundTrip ==
    mem_type.back # None => mem_type.back[1] = mem_type.value

\* positions at which a token of line starts
TokenStarts(line) ==
    {i \in 1..Len(line) :
        ~IsWhitespace(line[i]) /\ (i = 1 \/ IsWhitespace(line[i - 1]))}

\* the k-th token of line counted from its end
FromEnd(line, k) ==
    LET i == CHOOSE s \in TokenStarts(line) :
                 Cardinality({t \in TokenStarts(line) : t > s}) = k - 1
        j == CHOOSE e \in i..Len(line) :
                 /\ \A m \in i..e : ~IsWhitespace(line[m])
                 /\ e = Len(line) \/ IsWhitespace(line[e + 1])
    IN  SubSeq(line, i, j)

\* position of the last '+' of a token that has one
LastPlus(tok) ==
    CHOOSE k \in 1..Len(tok) :
        tok[k] = "+" /\ \A m \in (k + 1)..Len(tok) : tok[m] # "+"

\* the text after the last '+', less a leading "0x" if it has one
NumberText(tok) ==
    LET after == SubSeq(tok, LastPlus(tok) + 1, Len(tok))
    IN  IF Len(after) >= 2 /\ SubSeq(after, 1, 2) = <<"0", "x">>
        THEN SubSeq(after, 3, Len(after))
        ELSE after

\* a hexadecimal number of at most 8 digits after its leading zeros
IsHex32(t) ==
    /\ t # <<>>
    /\ \A i \in 1..Len(t) : ToDigit(t[i]) >= 0
    /\ \A i \in 1..Len(t) : t[i] # "0" => Len(t) - i + 1 <= 8

\* the digit k places from the end of t, 0 beyond its start
DigitFromEnd(t, k) == IF k <= Len(t) THEN ToDigit(t[Len(t) - k + 1]) ELSE 0

\* the value of a hexadecimal number that fits in 32 bits, as <<lo, hi>>
HexValue(t) ==
    <<DigitFromEnd(t, 1) + 16 * DigitFromEnd(t, 2) + 256 * DigitFromEnd(t, 3)
          + 4096 * DigitFromEnd(t, 4),
      DigitFromEnd(t, 5) + 16 * DigitFromEnd(t, 6) + 256 * DigitFromEnd(t, 7)
          + 4096 * DigitFromEnd(t, 8)>>

\* at least 4 tokens, a '+' in the last one, a 32-bit hexadecimal number
\* after it
IsFrameLine(line) ==
    /\ Cardinality(TokenStarts(line)) >= 4
    /\ \E k \in 1..Len(FromEnd(line, 1)) : FromEnd(line, 1)[k] = "+"
    /\ IsHex32(NumberText(FromEnd(line, 1)))

\* C18: create_stack_frame(line) is Some(frame) exactly when the line has at
\* least 4 whitespace-separated tokens, its last token contains '+' and the
\* text after the last '+', less an optional leading "0x", is a hexadecimal
\* number that fits in 32 bits; then module_name is the text before that
\* '+', start_rva the number, return_address, child_stack_pointer and
\* frame_number the 2nd, 3rd and 4th token from the end, file, line,
\* function and error None and offset 0.  Otherwise it is None.
C18_FrameIffWellFormed ==
    (trace.frame.called /\ Len(trace.stack_frames) = 1) =>
        LET line == trace.stack_frames[1]
            last == FromEnd(line, 1)
        IN  IF IsFrameLine(line)
            THEN trace.frame.ret =
                     Some([frame_number |-> FromEnd(line, 4),
                           child_stack_pointer |-> FromEnd(line, 3),
                           return_address |-> FromEnd(line, 2),
                           module_name |-> SubSeq(last, 1, LastPlus(last) - 1),
                           start_rva |-> HexValue(NumberText(last)),
                           file |-> None,
                           line |-> None,
                           function |-> None,
                           offset |-> 0,
                           error |-> None])
            ELSE trace.frame.ret = None

\* a frame of the highest address, 0xFFFFFFFF, out of a 5-token line
C18_Witness ==
    /\ trace.frame.called
    /\ trace.frame.ret # None
    /\ trace.frame.ret[1].start_rva = <<65535, 65535>>
    /\ trace.frame.ret[1].module_name = <<"M">>
    /\ Cardinality(TokenStarts(trace.stack_frames[1])) = 5

Blank(line) == \A i \in 1..Len(line) : IsWhitespace(line[i])

\* a line create_stack_frames gives a frame for
Kept(line) ==
    /\ ~Blank(line)
    /\ ~Contains(line, ReturnAddress)
    /\ CreateStackFrame(line) # None

\* C19: create_stack_frames returns, in input order, exactly one frame for
\* each line that is not blank, does not contain "Return Address" and is
\* accepted by create_stack_frame; the other lines are dropped, the output
\* is never longer than the input and is empty for an empty input.
C19_FramesOfKeptLines ==
    trace.frames.called =>
        LET kept == SelectSeq(trace.stack_frames, Kept)
        IN  /\ trace.frames.ret =
                   [i \in 1..Len(kept) |-> CreateStackFrame(kept[i])[1]]
            /\ Len(trace.frames.ret) <= Len(trace.stack_frames)
            /\ trace.stack_frames = <<>> => trace.frames.ret = <<>>

\* two frames out of three lines, the third one a frame line that holds
\* the header text
C19_Witness ==
    /\ trace.frames.called
    /\ Len(trace.stack_frames) = 3
    /\ Len(trace.frames.ret) = 2
    /\ \E i \in 1..3 :
           /\ Contains(trace.stack_frames[i], ReturnAddress)
           /\ CreateStackFrame(trace.stack_frames[i]) # None

=============================================================================
